---------------------------- MODULE Spec2Model ----------------------------
(***************************************************************************)
(* Model of user-sync: the futex based Mutex, Barrier and CondVar of       *)
(* src/linux.rs and the Mutex<T>/Guard/CondVar/Barrier wrappers of         *)
(* src/monitor.rs and src/barrier.rs.                                      *)
(*                                                                         *)
(* Every action is one access to shared memory (one atomic operation or    *)
(* one futex system call) of one thread, together with the thread-local    *)
(* computation that follows it up to the next shared access.  Atomics are  *)
(* sequentially consistent in the model.  The u32 counters (seq) are never *)
(* driven near 2^32 by the bounded clients below, so they are plain        *)
(* naturals.                                                               *)
(***************************************************************************)
EXTENDS Naturals, Integers, FiniteSets, Sequences, TLC

\* ------------------------------------------------------------ bounds
\* Number of threads of the clients.
NThreads == 3
\* Largest spin budget a raw-mutex client passes to lock/unlock.
MaxSpins == 1
\* Stand-in for the spin budget 0x100 that monitor.rs and CondVar::wait pass.
GuardSpins == 1
\* lock/increment/unlock cycles per thread of the raw-mutex client.
Cycles == 1
\* Operations the threads of the Mutex<T> client start, all together.
GuardOps == 4
\* Threads of the Mutex<T> client.
NUsers == 2
\* Threads that wait for the broadcast of the notify_all client.
NWaiters == 2
\* Items the producer pushes in the producer/consumer client.
Items == 2
\* Rounds of the barrier client.
Rounds == 2
\* Spurious futex wakeups the kernel makes in a run checked for liveness.
MaxSpurious == 2
\* lock/unlock cycles the threads of the wakeup client start, all together.
WakeOps == 3

Threads == 1..NThreads
Users == 1..NUsers
Waiters == 1..NWaiters
Notifier == NWaiters + 1
Producer == 1
Consumer == 2
Mutexes == {"A", "B"}
NULL == "null"
NONE == "none"

VARIABLES
  word,        \* Mutex.0 of each mutex: 0 unlocked, 1 locked, 2 contended
  cv_seq,      \* CondVar.seq
  cv_ptr,      \* CondVar.ptr: NULL or the address of a mutex word
  n_waiting,   \* Barrier.n_waiting
  n_total,     \* Barrier.n_total
  b_seq,       \* Barrier.seq
  parked,      \* the futex word a thread sleeps on in the kernel, or NONE
  pc,          \* position of each thread in the library code
  n,           \* local n of Mutex::lock / local n_waiting of Barrier::wait
  i,           \* iteration count of the spin loop in progress
  spins,       \* argument spins of the Mutex::lock / Mutex::unlock in progress
  marg,        \* the mutex argument of the call in progress
  cont,        \* where Mutex::unlock returns to (CondVar::wait inlines it)
  seq,         \* local seq of CondVar::wait / Barrier::wait
  ptr,         \* local ptr of CondVar::wait / CondVar::notify_all
  ret,         \* value returned by the last finished call
  ph,          \* client: what the thread is doing between library calls
  left,        \* client: operations the thread has still to start
  data,        \* client: the value guarded by the mutex
  tmp,         \* client: the value read by a read-modify-write in progress
  guard,       \* client: the number of live Guards the thread owns
  hist         \* client: history record of what has happened so far

sync   == <<word, cv_seq, cv_ptr, n_waiting, n_total, b_seq, parked>>
locals == <<pc, n, i, spins, marg, cont, seq, ptr, ret>>
client == <<ph, left, data, tmp, guard, hist>>
vars   == <<sync, locals, client>>

Running(t) == parked[t] = NONE

RECURSIVE SumOver(_, _)
SumOver(f, S) == IF S = {} THEN 0
                 ELSE LET x == CHOOSE y \in S : TRUE
                      IN f[x] + SumOver(f, S \ {x})

\* ------------------------------------------------------------ futex
\* futex_wait(f, val): sleep iff the word still holds val.
futex_wait(t, f, cur, val) ==
  parked' = [parked EXCEPT ![t] = IF cur = val THEN f ELSE NONE]

\* futex_wake(f, 1): wake one thread sleeping on f, if there is one.
futex_wake_one(f) ==
  IF \E w \in Threads : parked[w] = f
  THEN \E w \in Threads : /\ parked[w] = f
                          /\ parked' = [parked EXCEPT ![w] = NONE]
  ELSE UNCHANGED parked

\* futex_wake(f, !0): wake every thread sleeping on f.
futex_wake_all(f) ==
  parked' = [w \in Threads |-> IF parked[w] = f THEN NONE ELSE parked[w]]

\* The kernel may end a futex wait without a wake (signal, EINTR).
SpuriousWake(t) ==
  /\ parked[t] # NONE
  /\ parked' = [parked EXCEPT ![t] = NONE]
  /\ UNCHANGED <<word, cv_seq, cv_ptr, n_waiting, n_total, b_seq, locals, client>>

\* ------------------------------------------------------------ Mutex (linux.rs)
\* Where Mutex::lock(spins) starts: with spins = 0 the for loop is skipped,
\* n is still 0, and neither the swap nor the while loop runs.
LockEntry(s) == IF s > 0 THEN "lock_cas" ELSE "ret"

\* Where the code goes after the for loop of lock is left with n # 0.
AfterSpin(nn) == IF nn = 1 THEN "lock_swap" ELSE "lock_wait"

\* for _ in 0..spins { n = m.compare_and_swap(0, 1); if n == 0 { return }; }
lock_cas(t) ==
  /\ pc[t] = "lock_cas" /\ Running(t)
  /\ LET old == word[marg[t]] IN
       /\ n' = [n EXCEPT ![t] = old]
       /\ IF old = 0
          THEN /\ word' = [word EXCEPT ![marg[t]] = 1]
               /\ pc' = [pc EXCEPT ![t] = "ret"]
               /\ ret' = [ret EXCEPT ![t] = "unit"]
               /\ UNCHANGED i
          ELSE /\ UNCHANGED <<word, ret>>
               /\ i' = [i EXCEPT ![t] = i[t] + 1]
               /\ pc' = [pc EXCEPT ![t] = IF i[t] + 1 < spins[t]
                                          THEN "lock_cas" ELSE AfterSpin(old)]
  /\ UNCHANGED <<cv_seq, cv_ptr, n_waiting, n_total, b_seq, parked,
                 spins, marg, cont, seq, ptr, client>>

\* if n == 1 { n = m.swap(2) }
lock_swap(t) ==
  /\ pc[t] = "lock_swap" /\ Running(t)
  /\ n' = [n EXCEPT ![t] = word[marg[t]]]
  /\ word' = [word EXCEPT ![marg[t]] = 2]
  /\ IF word[marg[t]] > 0
     THEN /\ pc' = [pc EXCEPT ![t] = "lock_wait"]
          /\ UNCHANGED ret
     ELSE /\ pc' = [pc EXCEPT ![t] = "ret"]
          /\ ret' = [ret EXCEPT ![t] = "unit"]
  /\ UNCHANGED <<cv_seq, cv_ptr, n_waiting, n_total, b_seq, parked,
                 i, spins, marg, cont, seq, ptr, client>>

\* while n > 0 { futex_wait(&m, 2); ...
lock_wait(t) ==
  /\ pc[t] = "lock_wait" /\ Running(t)
  /\ futex_wait(t, marg[t], word[marg[t]], 2)
  /\ pc' = [pc EXCEPT ![t] = "lock_reswap"]
  /\ UNCHANGED <<word, cv_seq, cv_ptr, n_waiting, n_total, b_seq,
                 n, i, spins, marg, cont, seq, ptr, ret, client>>

\* Mutant of lock_reswap: the loop swaps 1, not 2, into the word.
lock_reswap_one(t) ==
  /\ pc[t] = "lock_reswap" /\ Running(t)
  /\ n' = [n EXCEPT ![t] = word[marg[t]]]
  /\ word' = [word EXCEPT ![marg[t]] = 1]
  /\ IF word[marg[t]] > 0
     THEN /\ pc' = [pc EXCEPT ![t] = "lock_wait"]
          /\ UNCHANGED ret
     ELSE /\ pc' = [pc EXCEPT ![t] = "ret"]
          /\ ret' = [ret EXCEPT ![t] = "unit"]
  /\ UNCHANGED <<cv_seq, cv_ptr, n_waiting, n_total, b_seq, parked,
                 i, spins, marg, cont, seq, ptr, client>>

\* ... n = m.swap(2) }
lock_reswap(t) ==
  /\ pc[t] = "lock_reswap" /\ Running(t)
  /\ n' = [n EXCEPT ![t] = word[marg[t]]]
  /\ word' = [word EXCEPT ![marg[t]] = 2]
  /\ IF word[marg[t]] > 0
     THEN /\ pc' = [pc EXCEPT ![t] = "lock_wait"]
          /\ UNCHANGED ret
     ELSE /\ pc' = [pc EXCEPT ![t] = "ret"]
          /\ ret' = [ret EXCEPT ![t] = "unit"]
  /\ UNCHANGED <<cv_seq, cv_ptr, n_waiting, n_total, b_seq, parked,
                 i, spins, marg, cont, seq, ptr, client>>

\* Where unlock goes when an iteration of its for loop ends without return.
UnlockLoop(k, s) == IF k < s THEN "unlock_load" ELSE "unlock_wake"

\* Mutant of unlock_swap: the early return is taken away.
unlock_swap_slow(t) ==
  /\ pc[t] = "unlock_swap" /\ Running(t)
  /\ word' = [word EXCEPT ![marg[t]] = 0]
  /\ pc' = [pc EXCEPT ![t] = UnlockLoop(0, spins[t])]
  /\ i' = [i EXCEPT ![t] = 0]
  /\ UNCHANGED <<cv_seq, cv_ptr, n_waiting, n_total, b_seq, parked,
                 n, spins, marg, cont, seq, ptr, ret, client>>

\* if m.swap(0) == 1 { return }
unlock_swap(t) ==
  /\ pc[t] = "unlock_swap" /\ Running(t)
  /\ word' = [word EXCEPT ![marg[t]] = 0]
  /\ IF word[marg[t]] = 1
     THEN /\ pc' = [pc EXCEPT ![t] = cont[t]]
          /\ ret' = [ret EXCEPT ![t] = "unit"]
     ELSE /\ pc' = [pc EXCEPT ![t] = UnlockLoop(0, spins[t])]
          /\ UNCHANGED ret
  /\ i' = [i EXCEPT ![t] = 0]
  /\ UNCHANGED <<cv_seq, cv_ptr, n_waiting, n_total, b_seq, parked,
                 n, spins, marg, cont, seq, ptr, client>>

\* for _ in 0..spins { if m.load() > 0 && ...
unlock_load(t) ==
  /\ pc[t] = "unlock_load" /\ Running(t)
  /\ IF word[marg[t]] > 0
     THEN /\ pc' = [pc EXCEPT ![t] = "unlock_cas"]
          /\ UNCHANGED i
     ELSE /\ i' = [i EXCEPT ![t] = i[t] + 1]
          /\ pc' = [pc EXCEPT ![t] = UnlockLoop(i[t] + 1, spins[t])]
  /\ UNCHANGED <<sync, n, spins, marg, cont, seq, ptr, ret, client>>

\* Mutant of unlock_cas: unlock returns after its compare_and_swap whatever
\* the value it found.
unlock_cas_any(t) ==
  /\ pc[t] = "unlock_cas" /\ Running(t)
  /\ word' = [word EXCEPT ![marg[t]] = IF @ = 1 THEN 2 ELSE @]
  /\ pc' = [pc EXCEPT ![t] = cont[t]]
  /\ ret' = [ret EXCEPT ![t] = "unit"]
  /\ UNCHANGED <<cv_seq, cv_ptr, n_waiting, n_total, b_seq, parked,
                 n, i, spins, marg, cont, seq, ptr, client>>

\* ... m.compare_and_swap(1, 2) > 0 { return }; }
unlock_cas(t) ==
  /\ pc[t] = "unlock_cas" /\ Running(t)
  /\ word' = [word EXCEPT ![marg[t]] = IF @ = 1 THEN 2 ELSE @]
  /\ IF word[marg[t]] > 0
     THEN /\ pc' = [pc EXCEPT ![t] = cont[t]]
          /\ ret' = [ret EXCEPT ![t] = "unit"]
          /\ UNCHANGED i
     ELSE /\ i' = [i EXCEPT ![t] = i[t] + 1]
          /\ pc' = [pc EXCEPT ![t] = UnlockLoop(i[t] + 1, spins[t])]
          /\ UNCHANGED ret
  /\ UNCHANGED <<cv_seq, cv_ptr, n_waiting, n_total, b_seq, parked,
                 n, spins, marg, cont, seq, ptr, client>>

\* futex_wake(&m, 1)
unlock_wake(t) ==
  /\ pc[t] = "unlock_wake" /\ Running(t)
  /\ futex_wake_one(marg[t])
  /\ pc' = [pc EXCEPT ![t] = cont[t]]
  /\ ret' = [ret EXCEPT ![t] = "unit"]
  /\ UNCHANGED <<word, cv_seq, cv_ptr, n_waiting, n_total, b_seq,
                 n, i, spins, marg, cont, seq, ptr, client>>

\* Mutant of try_lock: a swap(1) in place of the compare_and_swap(0, 1).
try_lock_swap(t) ==
  /\ pc[t] = "try_lock" /\ Running(t)
  /\ word' = [word EXCEPT ![marg[t]] = 1]
  /\ ret' = [ret EXCEPT ![t] = IF word[marg[t]] = 0 THEN "true" ELSE "false"]
  /\ pc' = [pc EXCEPT ![t] = "ret"]
  /\ UNCHANGED <<cv_seq, cv_ptr, n_waiting, n_total, b_seq, parked,
                 n, i, spins, marg, cont, seq, ptr, client>>

\* Mutex::try_lock: self.0.compare_and_swap(0, 1) == 0
try_lock(t) ==
  /\ pc[t] = "try_lock" /\ Running(t)
  /\ word' = [word EXCEPT ![marg[t]] = IF @ = 0 THEN 1 ELSE @]
  /\ ret' = [ret EXCEPT ![t] = IF word[marg[t]] = 0 THEN "true" ELSE "false"]
  /\ pc' = [pc EXCEPT ![t] = "ret"]
  /\ UNCHANGED <<cv_seq, cv_ptr, n_waiting, n_total, b_seq, parked,
                 n, i, spins, marg, cont, seq, ptr, client>>

\* ------------------------------------------------------------ CondVar (linux.rs)
\* debug_assert_ne!(0, m.0.load())
cw_assert(t) ==
  /\ pc[t] = "cw_assert" /\ Running(t)
  /\ IF word[marg[t]] # 0
     THEN pc' = [pc EXCEPT ![t] = "cw_seq"] /\ UNCHANGED ret
     ELSE pc' = [pc EXCEPT ![t] = "panic"] /\ ret' = [ret EXCEPT ![t] = "panic"]
  /\ UNCHANGED <<sync, n, i, spins, marg, cont, seq, ptr, client>>

\* let seq = self.seq.load()
cw_seq(t) ==
  /\ pc[t] = "cw_seq" /\ Running(t)
  /\ seq' = [seq EXCEPT ![t] = cv_seq]
  /\ pc' = [pc EXCEPT ![t] = "cw_ptr"]
  /\ UNCHANGED <<sync, n, i, spins, marg, cont, ptr, ret, client>>

\* The call m.unlock(0x100) that follows the checks of CondVar::wait.
WaitUnlock(t) ==
  /\ pc' = [pc EXCEPT ![t] = "unlock_swap"]
  /\ i' = [i EXCEPT ![t] = 0]
  /\ spins' = [spins EXCEPT ![t] = GuardSpins]
  /\ cont' = [cont EXCEPT ![t] = "cw_futex"]

\* The failed debug assertion "CondVar used with multiple Mutexen".
WaitPanic(t) ==
  /\ pc' = [pc EXCEPT ![t] = "panic"]
  /\ ret' = [ret EXCEPT ![t] = "panic"]
  /\ UNCHANGED <<i, spins, cont>>

\* let ptr = self.ptr.load(); if ptr.is_null() { ... } else
\* { debug_assert_eq!(ptr, &m.0) }
cw_ptr(t) ==
  /\ pc[t] = "cw_ptr" /\ Running(t)
  /\ ptr' = [ptr EXCEPT ![t] = cv_ptr]
  /\ IF cv_ptr = NULL
     THEN /\ pc' = [pc EXCEPT ![t] = "cw_bind"]
          /\ UNCHANGED <<i, spins, cont, ret>>
     ELSE IF cv_ptr = marg[t]
          THEN WaitUnlock(t) /\ UNCHANGED ret
          ELSE WaitPanic(t)
  /\ UNCHANGED <<sync, n, marg, seq, client>>

\* self.ptr.compare_and_swap(ptr::null_mut(), ptr): the new value is the
\* local ptr, which is null on this branch, not the address of m.
cw_bind(t) ==
  /\ pc[t] = "cw_bind" /\ Running(t)
  /\ cv_ptr' = IF cv_ptr = NULL THEN ptr[t] ELSE cv_ptr
  /\ pc' = [pc EXCEPT ![t] = "cw_bound"]
  /\ UNCHANGED <<word, cv_seq, n_waiting, n_total, b_seq, parked,
                 n, i, spins, marg, cont, seq, ptr, ret, client>>

\* debug_assert_eq!(ptr, self.ptr.load(), "CondVar used with multiple Mutexen")
cw_bound(t) ==
  /\ pc[t] = "cw_bound" /\ Running(t)
  /\ IF ptr[t] = cv_ptr
     THEN WaitUnlock(t) /\ UNCHANGED ret
     ELSE WaitPanic(t)
  /\ UNCHANGED <<sync, n, marg, seq, ptr, client>>

\* futex_wait(&self.seq, seq)
cw_futex(t) ==
  /\ pc[t] = "cw_futex" /\ Running(t)
  /\ futex_wait(t, "cv", cv_seq, seq[t])
  /\ pc' = [pc EXCEPT ![t] = "cw_reacq"]
  /\ UNCHANGED <<word, cv_seq, cv_ptr, n_waiting, n_total, b_seq,
                 n, i, spins, marg, cont, seq, ptr, ret, client>>

\* Mutant of cw_reacq: the mutex is taken back with compare_and_swap(0, 1).
cw_reacq_cas(t) ==
  /\ pc[t] = "cw_reacq" /\ Running(t)
  /\ word' = [word EXCEPT ![marg[t]] = IF @ = 0 THEN 1 ELSE @]
  /\ IF word[marg[t]] # 0
     THEN /\ pc' = [pc EXCEPT ![t] = "cw_mwait"]
          /\ UNCHANGED ret
     ELSE /\ pc' = [pc EXCEPT ![t] = "ret"]
          /\ ret' = [ret EXCEPT ![t] = "unit"]
  /\ UNCHANGED <<cv_seq, cv_ptr, n_waiting, n_total, b_seq, parked,
                 n, i, spins, marg, cont, seq, ptr, client>>

\* Mutant of cw_reacq: the swap is done once and its result ignored.
cw_reacq_once(t) ==
  /\ pc[t] = "cw_reacq" /\ Running(t)
  /\ word' = [word EXCEPT ![marg[t]] = 2]
  /\ pc' = [pc EXCEPT ![t] = "ret"]
  /\ ret' = [ret EXCEPT ![t] = "unit"]
  /\ UNCHANGED <<cv_seq, cv_ptr, n_waiting, n_total, b_seq, parked,
                 n, i, spins, marg, cont, seq, ptr, client>>

\* while 0 != m.0.swap(2) { ...
cw_reacq(t) ==
  /\ pc[t] = "cw_reacq" /\ Running(t)
  /\ word' = [word EXCEPT ![marg[t]] = 2]
  /\ IF word[marg[t]] # 0
     THEN /\ pc' = [pc EXCEPT ![t] = "cw_mwait"]
          /\ UNCHANGED ret
     ELSE /\ pc' = [pc EXCEPT ![t] = "ret"]
          /\ ret' = [ret EXCEPT ![t] = "unit"]
  /\ UNCHANGED <<cv_seq, cv_ptr, n_waiting, n_total, b_seq, parked,
                 n, i, spins, marg, cont, seq, ptr, client>>

\* ... futex_wait(&m.0, 2) }
cw_mwait(t) ==
  /\ pc[t] = "cw_mwait" /\ Running(t)
  /\ futex_wait(t, marg[t], word[marg[t]], 2)
  /\ pc' = [pc EXCEPT ![t] = "cw_reacq"]
  /\ UNCHANGED <<word, cv_seq, cv_ptr, n_waiting, n_total, b_seq,
                 n, i, spins, marg, cont, seq, ptr, ret, client>>

\* Mutant of no_inc: seq is left as it is.
no_inc_skip(t) ==
  /\ pc[t] = "no_inc" /\ Running(t)
  /\ pc' = [pc EXCEPT ![t] = "no_wake"]
  /\ UNCHANGED <<sync, n, i, spins, marg, cont, seq, ptr, ret, client>>

\* notify_one: self.seq.fetch_add(1)
no_inc(t) ==
  /\ pc[t] = "no_inc" /\ Running(t)
  /\ cv_seq' = cv_seq + 1
  /\ pc' = [pc EXCEPT ![t] = "no_wake"]
  /\ UNCHANGED <<word, cv_ptr, n_waiting, n_total, b_seq, parked,
                 n, i, spins, marg, cont, seq, ptr, ret, client>>

\* notify_one: futex_wake(&self.seq, 1)
no_wake(t) ==
  /\ pc[t] = "no_wake" /\ Running(t)
  /\ futex_wake_one("cv")
  /\ pc' = [pc EXCEPT ![t] = "ret"]
  /\ ret' = [ret EXCEPT ![t] = "unit"]
  /\ UNCHANGED <<word, cv_seq, cv_ptr, n_waiting, n_total, b_seq,
                 n, i, spins, marg, cont, seq, ptr, client>>

\* futex_reque(f, n, m, ptr) is syscall!(FUTEX, f, n, m, ptr): the operation
\* the kernel sees is n.  notify_all passes n = 1, which is FUTEX_WAKE, with
\* the count m = !0: the kernel wakes some of the threads sleeping on f and
\* moves none to ptr.  How many it wakes is left open.
futex_reque(f) ==
  \E S \in SUBSET {w \in Threads : parked[w] = f} :
    parked' = [w \in Threads |-> IF w \in S THEN NONE ELSE parked[w]]

\* notify_all: let ptr = self.ptr.load(); if ptr.is_null() { return };
\* self.seq.fetch_add(1); futex_reque(&self.seq, 1, !0, ptr)
notify_all(t) ==
  /\ pc[t] \in {"na_load", "na_inc", "na_reque"} /\ Running(t)
  /\ IF pc[t] = "na_load"
     THEN /\ ptr' = [ptr EXCEPT ![t] = cv_ptr]
          /\ pc' = [pc EXCEPT ![t] = IF cv_ptr = NULL THEN "ret" ELSE "na_inc"]
          /\ ret' = [ret EXCEPT ![t] = IF cv_ptr = NULL THEN "unit" ELSE NONE]
          /\ UNCHANGED <<cv_seq, parked>>
     ELSE IF pc[t] = "na_inc"
     THEN /\ cv_seq' = cv_seq + 1
          /\ pc' = [pc EXCEPT ![t] = "na_reque"]
          /\ UNCHANGED <<ptr, ret, parked>>
     ELSE /\ futex_reque("cv")
          /\ pc' = [pc EXCEPT ![t] = "ret"]
          /\ ret' = [ret EXCEPT ![t] = "unit"]
          /\ UNCHANGED <<ptr, cv_seq>>
  /\ UNCHANGED <<word, cv_ptr, n_waiting, n_total, b_seq,
                 n, i, spins, marg, cont, seq, client>>

\* ------------------------------------------------------------ Barrier (linux.rs)
\* let seq = self.seq.load()
bw_seq(t) ==
  /\ pc[t] = "bw_seq" /\ Running(t)
  /\ seq' = [seq EXCEPT ![t] = b_seq]
  /\ pc' = [pc EXCEPT ![t] = "bw_add"]
  /\ UNCHANGED <<sync, n, i, spins, marg, cont, ptr, ret, client>>

\* Mutant of Arrival: the last but one arrival is taken for the last too.
Arrival_early(k, total) ==
  IF k < total - 1 THEN "bw_load" ELSE IF k <= total THEN "bw_store" ELSE "panic"

\* Mutant of Arrival: the last arrival is recognised with >=, not ==.
Arrival_ge(k, total) ==
  IF k < total THEN "bw_load" ELSE "bw_store"

\* Where wait goes with the value n_waiting that its fetch_add gave it.
Arrival(k, total) ==
  IF k < total THEN "bw_load" ELSE IF k = total THEN "bw_store" ELSE "panic"

\* let n_waiting = self.n_waiting.fetch_add(1) + 1; if n_waiting < n_total
\* { .. }; if n_waiting == n_total { .. }; panic!("Too many waiters")
bw_add(t) ==
  /\ pc[t] = "bw_add" /\ Running(t)
  /\ n_waiting' = n_waiting + 1
  /\ n' = [n EXCEPT ![t] = n_waiting + 1]
  /\ pc' = [pc EXCEPT ![t] = Arrival(n_waiting + 1, n_total)]
  /\ ret' = [ret EXCEPT ![t] = IF n_waiting + 1 > n_total THEN "panic" ELSE NONE]
  /\ UNCHANGED <<word, cv_seq, cv_ptr, n_total, b_seq, parked,
                 i, spins, marg, cont, seq, ptr, client>>

\* while self.seq.load() == seq { ... } return false
bw_load(t) ==
  /\ pc[t] = "bw_load" /\ Running(t)
  /\ IF b_seq = seq[t]
     THEN /\ pc' = [pc EXCEPT ![t] = "bw_futex"]
          /\ UNCHANGED ret
     ELSE /\ pc' = [pc EXCEPT ![t] = "ret"]
          /\ ret' = [ret EXCEPT ![t] = "false"]
  /\ UNCHANGED <<sync, n, i, spins, marg, cont, seq, ptr, client>>

\* Mutant of bw_futex: an if in place of the while, wait returns false as
\* soon as the kernel wait returns.
bw_futex_if(t) ==
  /\ pc[t] = "bw_futex" /\ Running(t)
  /\ futex_wait(t, "bar", b_seq, seq[t])
  /\ pc' = [pc EXCEPT ![t] = "ret"]
  /\ ret' = [ret EXCEPT ![t] = "false"]
  /\ UNCHANGED <<word, cv_seq, cv_ptr, n_waiting, n_total, b_seq,
                 n, i, spins, marg, cont, seq, ptr, client>>

\* futex_wait(&self.seq, seq)
bw_futex(t) ==
  /\ pc[t] = "bw_futex" /\ Running(t)
  /\ futex_wait(t, "bar", b_seq, seq[t])
  /\ pc' = [pc EXCEPT ![t] = "bw_load"]
  /\ UNCHANGED <<word, cv_seq, cv_ptr, n_waiting, n_total, b_seq,
                 n, i, spins, marg, cont, seq, ptr, ret, client>>

\* Mutant of bw_store: n_waiting is not reset.
bw_store_skip(t) ==
  /\ pc[t] = "bw_store" /\ Running(t)
  /\ pc' = [pc EXCEPT ![t] = "bw_inc"]
  /\ UNCHANGED <<sync, n, i, spins, marg, cont, seq, ptr, ret, client>>

\* self.n_waiting.store(0)
bw_store(t) ==
  /\ pc[t] = "bw_store" /\ Running(t)
  /\ n_waiting' = 0
  /\ pc' = [pc EXCEPT ![t] = "bw_inc"]
  /\ UNCHANGED <<word, cv_seq, cv_ptr, n_total, b_seq, parked,
                 n, i, spins, marg, cont, seq, ptr, ret, client>>

\* Mutant of bw_inc: seq goes up by 2.
bw_inc_twice(t) ==
  /\ pc[t] = "bw_inc" /\ Running(t)
  /\ b_seq' = b_seq + 2
  /\ pc' = [pc EXCEPT ![t] = "bw_wake"]
  /\ UNCHANGED <<word, cv_seq, cv_ptr, n_waiting, n_total, parked,
                 n, i, spins, marg, cont, seq, ptr, ret, client>>

\* self.seq.fetch_add(1)
bw_inc(t) ==
  /\ pc[t] = "bw_inc" /\ Running(t)
  /\ b_seq' = b_seq + 1
  /\ pc' = [pc EXCEPT ![t] = "bw_wake"]
  /\ UNCHANGED <<word, cv_seq, cv_ptr, n_waiting, n_total, parked,
                 n, i, spins, marg, cont, seq, ptr, ret, client>>

\* futex_wake(&self.seq, !0); return true
bw_wake(t) ==
  /\ pc[t] = "bw_wake" /\ Running(t)
  /\ futex_wake_all("bar")
  /\ pc' = [pc EXCEPT ![t] = "ret"]
  /\ ret' = [ret EXCEPT ![t] = "true"]
  /\ UNCHANGED <<word, cv_seq, cv_ptr, n_waiting, n_total, b_seq,
                 n, i, spins, marg, cont, seq, ptr, client>>

\* ------------------------------------------------------------ calls
\* The thread enters Mutex::lock(m, s): let mut n = 0.
CallLock(t, m, s) ==
  /\ pc' = [pc EXCEPT ![t] = LockEntry(s)]
  /\ n' = [n EXCEPT ![t] = 0]
  /\ i' = [i EXCEPT ![t] = 0]
  /\ spins' = [spins EXCEPT ![t] = s]
  /\ marg' = [marg EXCEPT ![t] = m]
  /\ cont' = [cont EXCEPT ![t] = "ret"]
  /\ ret' = [ret EXCEPT ![t] = IF s > 0 THEN NONE ELSE "unit"]

\* The thread enters Mutex::unlock(m, s), which returns to k.
CallUnlock(t, m, s, k) ==
  /\ pc' = [pc EXCEPT ![t] = "unlock_swap"]
  /\ i' = [i EXCEPT ![t] = 0]
  /\ spins' = [spins EXCEPT ![t] = s]
  /\ marg' = [marg EXCEPT ![t] = m]
  /\ cont' = [cont EXCEPT ![t] = k]
  /\ ret' = [ret EXCEPT ![t] = NONE]

\* The thread enters Mutex::try_lock(m).
CallTryLock(t, m) ==
  /\ pc' = [pc EXCEPT ![t] = "try_lock"]
  /\ marg' = [marg EXCEPT ![t] = m]
  /\ ret' = [ret EXCEPT ![t] = NONE]

\* The thread enters CondVar::wait(m).
CallWait(t, m) ==
  /\ pc' = [pc EXCEPT ![t] = "cw_assert"]
  /\ marg' = [marg EXCEPT ![t] = m]
  /\ ret' = [ret EXCEPT ![t] = NONE]

\* The thread enters CondVar::notify_one.
CallNotifyOne(t) ==
  /\ pc' = [pc EXCEPT ![t] = "no_inc"]
  /\ ret' = [ret EXCEPT ![t] = NONE]

\* The thread enters CondVar::notify_all.
CallNotifyAll(t) ==
  /\ pc' = [pc EXCEPT ![t] = "na_load"]
  /\ ret' = [ret EXCEPT ![t] = NONE]

\* The call is over and its value used: the locals of the call are gone.
Forget(t) ==
  /\ pc' = [pc EXCEPT ![t] = "idle"]
  /\ n' = [n EXCEPT ![t] = 0]
  /\ i' = [i EXCEPT ![t] = 0]
  /\ spins' = [spins EXCEPT ![t] = 0]
  /\ seq' = [seq EXCEPT ![t] = 0]
  /\ ptr' = [ptr EXCEPT ![t] = NULL]
  /\ ret' = [ret EXCEPT ![t] = NONE]

\* ------------------------------------------------------------ initial state
\* Mutex::new, CondVar::new, Barrier::new(nt) and idle threads.
InitLib(nt) ==
  /\ word = [m \in Mutexes |-> 0]
  /\ cv_seq = 0 /\ cv_ptr = NULL
  /\ n_waiting = 0 /\ n_total = nt /\ b_seq = 0
  /\ parked = [t \in Threads |-> NONE]
  /\ pc = [t \in Threads |-> "idle"]
  /\ n = [t \in Threads |-> 0]
  /\ i = [t \in Threads |-> 0]
  /\ spins = [t \in Threads |-> 0]
  /\ marg = [t \in Threads |-> "A"]
  /\ cont = [t \in Threads |-> "ret"]
  /\ seq = [t \in Threads |-> 0]
  /\ ptr = [t \in Threads |-> NULL]
  /\ ret = [t \in Threads |-> NONE]
  /\ tmp = [t \in Threads |-> 0]
  /\ guard = [t \in Threads |-> 0]

\* ------------------------------------------------------------ raw mutex client
\* T threads, each Cycles times: lock(s); counter += 1; unlock(u), with the
\* spin budgets of the run in hist.s and hist.u; here u = s, any of
\* 0..MaxSpins.
RawInit ==
  /\ InitLib(0)
  /\ ph = [t \in Threads |-> "idle"]
  /\ left = [t \in Threads |-> Cycles]
  /\ data = 0
  /\ \E s \in 0..MaxSpins : hist = [s |-> s, u |-> s]

RawLock(t) ==
  /\ ph[t] = "idle" /\ left[t] > 0
  /\ CallLock(t, "A", hist.s)
  /\ ph' = [ph EXCEPT ![t] = "locking"]
  /\ left' = [left EXCEPT ![t] = left[t] - 1]
  /\ UNCHANGED <<sync, seq, ptr, data, tmp, guard, hist>>

\* lock has returned: read the counter.
RawRead(t) ==
  /\ ph[t] = "locking" /\ pc[t] = "ret"
  /\ tmp' = [tmp EXCEPT ![t] = data]
  /\ ph' = [ph EXCEPT ![t] = "cs"]
  /\ UNCHANGED <<sync, locals, left, data, guard, hist>>

\* write the incremented counter and enter unlock.
RawWrite(t) ==
  /\ ph[t] = "cs"
  /\ data' = tmp[t] + 1
  /\ CallUnlock(t, "A", hist.u, "ret")
  /\ ph' = [ph EXCEPT ![t] = "unlocking"]
  /\ UNCHANGED <<sync, n, seq, ptr, left, tmp, guard, hist>>

\* unlock has returned.
RawDone(t) ==
  /\ ph[t] = "unlocking" /\ pc[t] = "ret"
  /\ ph' = [ph EXCEPT ![t] = "idle"]
  /\ Forget(t)
  /\ UNCHANGED <<sync, marg, cont,
                 left, data, tmp, guard, hist>>

RawNext ==
  \E t \in Threads :
    \/ RawLock(t) \/ RawRead(t) \/ RawWrite(t) \/ RawDone(t)
    \/ lock_cas(t) \/ lock_swap(t) \/ lock_wait(t) \/ lock_reswap(t)
    \/ unlock_swap(t) \/ unlock_load(t) \/ unlock_cas(t) \/ unlock_wake(t)
    \/ SpuriousWake(t)

RawSpec == RawInit /\ [][RawNext]_vars

\* A thread is between a returned lock and the start of its unlock.
InCS(t) == \/ ph[t] = "locking" /\ pc[t] = "ret"
           \/ ph[t] = "cs"

RawAllDone == \A t \in Threads : ph[t] = "idle" /\ left[t] = 0

(* C1: for every spin budget, 0 included, no two threads are between a     *)
(* returned lock and the matching unlock at once, and when every thread    *)
(* has done its K cycles the counter is T*K.                               *)
C1_MutualExclusionEveryBudget ==
  /\ Cardinality({t \in Threads : InCS(t)}) <= 1
  /\ RawAllDone => data = NThreads * Cycles

\* ------------------------------------------------------------ Mutex<T> client
\* Threads that use one Mutex<T> (mutex "A", a counter) and one CondVar
\* through monitor.rs only, starting up to GuardOps operations of their
\* choice between them (hist.ops are still to start).  guard[t] is the
\* number of live Guards thread t owns; hist.adds counts the finished
\* additions to the counter, hist.waited is the thread whose CondVar::wait
\* returned last (0: none yet).
GuardInit ==
  /\ InitLib(0)
  /\ ph = [t \in Threads |-> "idle"]
  /\ left = [t \in Threads |-> 0]
  /\ data = 0
  /\ hist = [adds |-> 0, waited |-> 0, ops |-> GuardOps]

Idle(t) == ph[t] = "idle" /\ pc[t] = "idle"

\* Mutex<T>::lock: self.lock.lock(0x100)
MutexLock(t) ==
  /\ Idle(t) /\ hist.ops > 0 /\ guard[t] = 0
  /\ CallLock(t, "A", GuardSpins)
  /\ ph' = [ph EXCEPT ![t] = "lock"]
  /\ hist' = [hist EXCEPT !.ops = @ - 1]
  /\ UNCHANGED <<sync, seq, ptr, left, data, tmp, guard>>

\* Mutex<T>::lock: Guard { lock: &self.lock, valu: ... }
MutexLocked(t) ==
  /\ ph[t] = "lock" /\ pc[t] = "ret"
  /\ guard' = [guard EXCEPT ![t] = guard[t] + 1]
  /\ ph' = [ph EXCEPT ![t] = "idle"]
  /\ Forget(t)
  /\ UNCHANGED <<sync, marg, cont,
                 left, data, tmp, hist>>

\* Mutex<T>::try_lock: if self.lock.try_lock() ...
MutexTryLock(t) ==
  /\ Idle(t) /\ hist.ops > 0
  /\ CallTryLock(t, "A")
  /\ ph' = [ph EXCEPT ![t] = "try"]
  /\ hist' = [hist EXCEPT !.ops = @ - 1]
  /\ UNCHANGED <<sync, n, i, spins, cont, seq, ptr, left, data, tmp, guard>>

\* Mutex<T>::try_lock: ... { Some(Guard { .. }) } else { None }
MutexTried(t) ==
  /\ ph[t] = "try" /\ pc[t] = "ret"
  /\ guard' = [guard EXCEPT ![t] = IF ret[t] = "true" THEN guard[t] + 1
                                                      ELSE guard[t]]
  /\ ph' = [ph EXCEPT ![t] = "idle"]
  /\ Forget(t)
  /\ UNCHANGED <<sync, marg, cont,
                 left, data, tmp, hist>>

\* *guard += 1, the read through DerefMut
GuardRead(t) ==
  /\ Idle(t) /\ hist.ops > 0 /\ guard[t] > 0
  /\ tmp' = [tmp EXCEPT ![t] = data]
  /\ ph' = [ph EXCEPT ![t] = "add"]
  /\ hist' = [hist EXCEPT !.ops = @ - 1]
  /\ UNCHANGED <<sync, locals, left, data, guard>>

\* *guard += 1, the write through DerefMut
GuardWrite(t) ==
  /\ ph[t] = "add"
  /\ data' = tmp[t] + 1
  /\ hist' = [hist EXCEPT !.adds = @ + 1]
  /\ ph' = [ph EXCEPT ![t] = "idle"]
  /\ UNCHANGED <<sync, locals, left, tmp, guard>>

\* Drop for Guard: self.lock.unlock(0x100)
GuardDrop(t) ==
  /\ Idle(t) /\ guard[t] > 0
  /\ guard' = [guard EXCEPT ![t] = guard[t] - 1]
  /\ CallUnlock(t, "A", GuardSpins, "ret")
  /\ ph' = [ph EXCEPT ![t] = "call"]
  /\ UNCHANGED <<sync, n, seq, ptr, left, data, tmp, hist>>

\* CondVar::wait(guard): self.0.wait(guard.lock); the Guard is moved in.
CondVarWait(t) ==
  /\ Idle(t) /\ hist.ops > 0 /\ guard[t] > 0
  /\ guard' = [guard EXCEPT ![t] = guard[t] - 1]
  /\ CallWait(t, "A")
  /\ ph' = [ph EXCEPT ![t] = "wait"]
  /\ hist' = [hist EXCEPT !.ops = @ - 1]
  /\ UNCHANGED <<sync, n, i, spins, cont, seq, ptr, left, data, tmp>>

\* CondVar::wait(guard): ...; guard
CondVarWaited(t) ==
  /\ ph[t] = "wait" /\ pc[t] = "ret"
  /\ guard' = [guard EXCEPT ![t] = guard[t] + 1]
  /\ hist' = [hist EXCEPT !.waited = t]
  /\ ph' = [ph EXCEPT ![t] = "idle"]
  /\ Forget(t)
  /\ UNCHANGED <<sync, marg, cont, left, data, tmp>>

\* CondVar::notify_one: self.0.notify_one()
CondVarNotifyOne(t) ==
  /\ Idle(t) /\ hist.ops > 0
  /\ CallNotifyOne(t)
  /\ ph' = [ph EXCEPT ![t] = "call"]
  /\ hist' = [hist EXCEPT !.ops = @ - 1]
  /\ UNCHANGED <<sync, n, i, spins, marg, cont, seq, ptr, left, data, tmp, guard>>

\* CondVar::notify_all: self.0.notify_all()
CondVarNotifyAll(t) ==
  /\ Idle(t) /\ hist.ops > 0
  /\ CallNotifyAll(t)
  /\ ph' = [ph EXCEPT ![t] = "call"]
  /\ hist' = [hist EXCEPT !.ops = @ - 1]
  /\ UNCHANGED <<sync, n, i, spins, marg, cont, seq, ptr, left, data, tmp, guard>>

\* A call that returns nothing to keep (drop, notify_one, notify_all) is over.
Returned(t) ==
  /\ ph[t] = "call" /\ pc[t] = "ret"
  /\ ph' = [ph EXCEPT ![t] = "idle"]
  /\ Forget(t)
  /\ UNCHANGED <<sync, marg, cont,
                 left, data, tmp, guard, hist>>

GuardNext ==
  \E t \in Users :
    \/ MutexLock(t) \/ MutexLocked(t) \/ MutexTryLock(t) \/ MutexTried(t)
    \/ GuardRead(t) \/ GuardWrite(t) \/ GuardDrop(t)
    \/ CondVarWait(t) \/ CondVarWaited(t)
    \/ CondVarNotifyOne(t) \/ CondVarNotifyAll(t) \/ Returned(t)
    \/ lock_cas(t) \/ lock_swap(t) \/ lock_wait(t) \/ lock_reswap(t)
    \/ unlock_swap(t) \/ unlock_load(t) \/ unlock_cas(t) \/ unlock_wake(t)
    \/ try_lock(t)
    \/ cw_assert(t) \/ cw_seq(t) \/ cw_ptr(t) \/ cw_bind(t) \/ cw_bound(t)
    \/ cw_futex(t) \/ cw_reacq(t) \/ cw_mwait(t)
    \/ no_inc(t) \/ no_wake(t) \/ notify_all(t)
    \/ SpuriousWake(t)

GuardSpec == GuardInit /\ [][GuardNext]_vars

\* The number of live Guards of the Mutex<T>.
LiveGuards == SumOver(guard, Threads)

(* C2: at most one live Guard exists at any time (a thread inside          *)
(* CondVar::wait owns none until wait returns), and the counter equals the *)
(* number of additions made under the lock: no addition is lost.           *)
C2_GuardExclusive ==
  /\ LiveGuards <= 1
  /\ data = hist.adds

\* A thread owns the Guard that CondVar::wait returned to it while another
\* thread sleeps in lock on the mutex word.
C2_Witness ==
  \E t, u \in Users : /\ guard[t] = 1 /\ hist.waited = t
                      /\ parked[u] = "A" /\ pc[u] = "lock_reswap"

\* The thread owns the raw lock: it has a Guard, or is about to be given one,
\* or is in Drop / CondVar::wait before the swap that releases the word.
Owner(t) ==
  \/ guard[t] > 0
  \/ pc[t] \in {"unlock_swap", "cw_assert", "cw_seq", "cw_ptr", "cw_bind", "cw_bound"}
  \/ pc[t] = "ret" /\ ph[t] \in {"lock", "wait"}
  \/ pc[t] = "ret" /\ ph[t] = "try" /\ ret[t] = "true"

\* Thread t takes the step of try_lock.
TryStep(t) == pc[t] = "try_lock" /\ pc'[t] # "try_lock"

(* C8: a try_lock on a held mutex (word 1 or 2) reports failure, returns   *)
(* without sleeping and leaves the word as it was; on a free mutex (word   *)
(* 0) it reports success and sets the word to 1; and when no thread owns   *)
(* the lock any more (every Guard released) it reports success.            *)
C8_TryLock ==
  [][\A t \in Users : TryStep(t) =>
        /\ pc'[t] = "ret" /\ parked'[t] = NONE
        /\ word["A"] \in {1, 2} =>
             word' = word /\ ret'[t] = "false"
        /\ word["A"] = 0 =>
             word'["A"] = 1 /\ ret'[t] = "true"
        /\ (\A u \in Users : ~Owner(u)) => ret'[t] = "true"]_vars

\* A try_lock has failed on a contended mutex whose Guard another thread owns.
C8_Witness ==
  \E t, u \in Users : /\ t # u /\ ph[t] = "try" /\ pc[t] = "ret"
                      /\ ret[t] = "false" /\ word["A"] = 2 /\ guard[u] = 1

\* ------------------------------------------------------------ notify_all client
\* NWaiters threads run  g = mutex.lock(); while !*g { g = cond.wait(g) };
\* observe; drop(g)  and, once they all sleep in CondVar::wait, the thread
\* Notifier runs  *mutex.lock() = true; cond.notify_all().  data is the
\* predicate (0 or 1), hist.seen[w] counts the times waiter w observed it true.
BroadcastInit ==
  /\ InitLib(0)
  /\ ph = [t \in Threads |-> "idle"]
  /\ left = [t \in Threads |-> IF t \in Waiters \/ t = Notifier THEN 1 ELSE 0]
  /\ data = 0
  /\ hist = [seen |-> [w \in Waiters |-> 0]]

\* let g = mutex.lock()
BLock(t) ==
  /\ Idle(t) /\ left[t] > 0
  /\ t \in Waiters \/ (t = Notifier /\ \A w \in Waiters : parked[w] = "cv")
  /\ CallLock(t, "A", GuardSpins)
  /\ ph' = [ph EXCEPT ![t] = "lock"]
  /\ left' = [left EXCEPT ![t] = left[t] - 1]
  /\ UNCHANGED <<sync, seq, ptr, data, tmp, guard, hist>>

\* The waiter has a Guard (from lock or from wait) and the predicate is
\* false: g = cond.wait(g)
BWait(t) ==
  /\ t \in Waiters /\ ph[t] \in {"lock", "wait"} /\ pc[t] = "ret"
  /\ data = 0
  /\ CallWait(t, "A")
  /\ ph' = [ph EXCEPT ![t] = "wait"]
  /\ UNCHANGED <<sync, n, i, spins, cont, seq, ptr, left, data, tmp, guard, hist>>

\* The waiter has a Guard and the predicate is true: observe it, drop(g)
BObserve(t) ==
  /\ t \in Waiters /\ ph[t] \in {"lock", "wait"} /\ pc[t] = "ret"
  /\ data = 1
  /\ hist' = [hist EXCEPT !.seen[t] = @ + 1]
  /\ CallUnlock(t, "A", GuardSpins, "ret")
  /\ ph' = [ph EXCEPT ![t] = "drop"]
  /\ UNCHANGED <<sync, n, seq, ptr, left, data, tmp, guard>>

\* The notifier has the Guard: *g = true; drop(g)
BSet(t) ==
  /\ t = Notifier /\ ph[t] = "lock" /\ pc[t] = "ret"
  /\ data' = 1
  /\ CallUnlock(t, "A", GuardSpins, "ret")
  /\ ph' = [ph EXCEPT ![t] = "set"]
  /\ UNCHANGED <<sync, n, seq, ptr, left, tmp, guard, hist>>

\* cond.notify_all()
BNotify(t) ==
  /\ t = Notifier /\ ph[t] = "set" /\ pc[t] = "ret"
  /\ CallNotifyAll(t)
  /\ ph' = [ph EXCEPT ![t] = "drop"]
  /\ UNCHANGED <<sync, n, i, spins, marg, cont, seq, ptr, left, data, tmp, guard, hist>>

\* The last call of the thread has returned.
BDone(t) ==
  /\ ph[t] = "drop" /\ pc[t] = "ret"
  /\ ph' = [ph EXCEPT ![t] = "done"]
  /\ Forget(t)
  /\ UNCHANGED <<sync, marg, cont, left, data, tmp, guard, hist>>

BroadcastNext ==
  \E t \in Threads :
    \/ BLock(t) \/ BWait(t) \/ BObserve(t) \/ BSet(t) \/ BNotify(t) \/ BDone(t)
    \/ lock_cas(t) \/ lock_swap(t) \/ lock_wait(t) \/ lock_reswap(t)
    \/ unlock_swap(t) \/ unlock_load(t) \/ unlock_cas(t) \/ unlock_wake(t)
    \/ cw_assert(t) \/ cw_seq(t) \/ cw_ptr(t) \/ cw_bind(t) \/ cw_bound(t)
    \/ cw_futex(t) \/ cw_reacq(t) \/ cw_mwait(t)
    \/ notify_all(t)
    \/ SpuriousWake(t)

BroadcastSpec == BroadcastInit /\ [][BroadcastNext]_vars

(* C3: with every waiter blocked in CondVar::wait, once the predicate has  *)
(* been made true and the single notify_all has returned, no waiter is     *)
(* left parked on the condition variable (each one goes on to reacquire    *)
(* the mutex and observe the predicate).                                   *)
C3_NotifyAllReleasesWaiters ==
  ph[Notifier] = "done" => \A w \in Waiters : parked[w] # "cv"

\* ------------------------------------------------------------ producer/consumer
\* The example of monitor.rs over a queue of capacity 1; data is the length
\* of the queue.  Producer, Items times, once the queue has room:
\*   mutex.lock().push(datum); cond.notify_one()
\* Consumer, Items times:
\*   g = mutex.lock(); while g.empty() { g = cond.wait(g) }; g.pop()
\* left[t] counts the items still to push or pop, hist.consumed the pops,
\* hist.spurious the spurious wakeups so far.
QueueInit ==
  /\ InitLib(0)
  /\ ph = [t \in Threads |-> "idle"]
  /\ left = [t \in Threads |-> IF t \in {Producer, Consumer} THEN Items ELSE 0]
  /\ data = 0
  /\ hist = [consumed |-> 0, spurious |-> 0]

\* mutex.lock()
QLock(t) ==
  /\ Idle(t) /\ left[t] > 0
  /\ t = Consumer \/ (t = Producer /\ data = 0)
  /\ CallLock(t, "A", GuardSpins)
  /\ ph' = [ph EXCEPT ![t] = "lock"]
  /\ UNCHANGED <<sync, seq, ptr, left, data, tmp, guard, hist>>

\* The producer has the Guard: push(datum), the Guard is dropped.
QPush(t) ==
  /\ t = Producer /\ ph[t] = "lock" /\ pc[t] = "ret"
  /\ data' = data + 1
  /\ left' = [left EXCEPT ![t] = left[t] - 1]
  /\ CallUnlock(t, "A", GuardSpins, "ret")
  /\ ph' = [ph EXCEPT ![t] = "pushed"]
  /\ UNCHANGED <<sync, n, seq, ptr, tmp, guard, hist>>

\* cond.notify_one()
QNotify(t) ==
  /\ t = Producer /\ ph[t] = "pushed" /\ pc[t] = "ret"
  /\ CallNotifyOne(t)
  /\ ph' = [ph EXCEPT ![t] = "call"]
  /\ UNCHANGED <<sync, n, i, spins, marg, cont, seq, ptr, left, data, tmp, guard, hist>>

\* The consumer has a Guard and the queue is empty: g = cond.wait(g)
QWait(t) ==
  /\ t = Consumer /\ ph[t] \in {"lock", "wait"} /\ pc[t] = "ret"
  /\ data = 0
  /\ CallWait(t, "A")
  /\ ph' = [ph EXCEPT ![t] = "wait"]
  /\ UNCHANGED <<sync, n, i, spins, cont, seq, ptr, left, data, tmp, guard, hist>>

\* The consumer has a Guard and the queue is not empty: pop, drop the Guard.
QPop(t) ==
  /\ t = Consumer /\ ph[t] \in {"lock", "wait"} /\ pc[t] = "ret"
  /\ data > 0
  /\ data' = data - 1
  /\ left' = [left EXCEPT ![t] = left[t] - 1]
  /\ hist' = [hist EXCEPT !.consumed = @ + 1]
  /\ CallUnlock(t, "A", GuardSpins, "ret")
  /\ ph' = [ph EXCEPT ![t] = "call"]
  /\ UNCHANGED <<sync, n, seq, ptr, tmp, guard>>

\* The steps of thread t in the producer/consumer client, kernel-made
\* spurious wakeups excepted.
QStep(t) ==
  \/ QLock(t) \/ QPush(t) \/ QNotify(t) \/ QWait(t) \/ QPop(t) \/ Returned(t)
  \/ lock_cas(t) \/ lock_swap(t) \/ lock_wait(t) \/ lock_reswap(t)
  \/ unlock_swap(t) \/ unlock_load(t) \/ unlock_cas(t) \/ unlock_wake(t)
  \/ cw_assert(t) \/ cw_seq(t) \/ cw_ptr(t) \/ cw_bind(t) \/ cw_bound(t)
  \/ cw_futex(t) \/ cw_reacq(t) \/ cw_mwait(t)
  \/ no_inc(t) \/ no_wake(t)

\* A spurious wakeup, of which a run has finitely many.
QSpurious(t) ==
  /\ hist.spurious < MaxSpurious
  /\ parked[t] # NONE
  /\ parked' = [parked EXCEPT ![t] = NONE]
  /\ hist' = [hist EXCEPT !.spurious = @ + 1]
  /\ UNCHANGED <<word, cv_seq, cv_ptr, n_waiting, n_total, b_seq, locals,
                 ph, left, data, tmp, guard>>

QueueNext ==
  \E t \in {Producer, Consumer} : QStep(t) \/ QSpurious(t)

\* Each thread that can run is scheduled again: weak fairness per thread.
\* No fairness is assumed of spurious wakeups.
QueueSpec ==
  /\ QueueInit /\ [][QueueNext]_vars
  /\ \A t \in {Producer, Consumer} : WF_vars(QStep(t))

(* C4: the consumer eventually pops all the items the producer pushes: no  *)
(* notify_one is lost and the two threads never deadlock.                  *)
C4_NoLostWakeup == <>(hist.consumed = Items /\ data = 0)

\* The producer's notify_one has advanced seq after the consumer read it
\* and released the mutex, and before the consumer's futex_wait on seq.
C4_Witness ==
  /\ pc[Consumer] = "cw_futex" /\ cv_seq # seq[Consumer]
  /\ pc[Producer] = "no_wake"

\* ------------------------------------------------------------ two mutexes
\* One CondVar and two Mutex<T>: thread 1 runs  g = a.lock(); g = cond.wait(g);
\* drop(g)  and, once that wait has released a and gone to sleep on the
\* condition variable (or has returned), thread 2 runs the same with mutex b.
\* Thread 3 runs  drop(a.lock()); cond.notify_one()  up to Items times.
MutexOf(t) == IF t = 2 THEN "B" ELSE "A"

\* The wait of thread 1, on mutex a, is past its checks and its unlock.
WaitedOnA ==
  \/ ph[1] = "wait" /\ pc[1] \in {"cw_reacq", "cw_mwait", "ret"}
  \/ ph[1] \in {"call", "done"}

TwoInit ==
  /\ InitLib(0)
  /\ ph = [t \in Threads |-> "idle"]
  /\ left = [t \in Threads |-> IF t \in {1, 2} THEN 1 ELSE IF t = 3 THEN Items ELSE 0]
  /\ data = 0
  /\ hist = [waits |-> 0]

\* let g = a.lock() / let g = b.lock()
TLock(t) ==
  /\ t \in {1, 2, 3} /\ Idle(t) /\ left[t] > 0
  /\ CallLock(t, MutexOf(t), GuardSpins)
  /\ ph' = [ph EXCEPT ![t] = "lock"]
  /\ left' = [left EXCEPT ![t] = left[t] - 1]
  /\ UNCHANGED <<sync, seq, ptr, data, tmp, guard, hist>>

\* g = cond.wait(g)
TWait(t) ==
  /\ t \in {1, 2} /\ ph[t] = "lock" /\ pc[t] = "ret"
  /\ t = 2 => WaitedOnA
  /\ CallWait(t, MutexOf(t))
  /\ ph' = [ph EXCEPT ![t] = "wait"]
  /\ hist' = [hist EXCEPT !.waits = @ + 1]
  /\ UNCHANGED <<sync, n, i, spins, cont, seq, ptr, left, data, tmp, guard>>

\* wait has returned: drop(g)
TDrop(t) ==
  /\ t \in {1, 2} /\ ph[t] = "wait" /\ pc[t] = "ret"
  /\ CallUnlock(t, MutexOf(t), GuardSpins, "ret")
  /\ ph' = [ph EXCEPT ![t] = "call"]
  /\ UNCHANGED <<sync, n, seq, ptr, left, data, tmp, guard, hist>>

\* thread 3 has the Guard of a: drop it
TRelease(t) ==
  /\ t = 3 /\ ph[t] = "lock" /\ pc[t] = "ret"
  /\ CallUnlock(t, MutexOf(t), GuardSpins, "ret")
  /\ ph' = [ph EXCEPT ![t] = "drop"]
  /\ UNCHANGED <<sync, n, seq, ptr, left, data, tmp, guard, hist>>

\* cond.notify_one()
TNotify(t) ==
  /\ t = 3 /\ ph[t] = "drop" /\ pc[t] = "ret"
  /\ CallNotifyOne(t)
  /\ ph' = [ph EXCEPT ![t] = "call"]
  /\ UNCHANGED <<sync, n, i, spins, marg, cont, seq, ptr, left, data, tmp, guard, hist>>

TwoNext ==
  \E t \in {1, 2, 3} :
    \/ TLock(t) \/ TWait(t) \/ TDrop(t) \/ TRelease(t) \/ TNotify(t)
    \/ Returned(t)
    \/ lock_cas(t) \/ lock_swap(t) \/ lock_wait(t) \/ lock_reswap(t)
    \/ unlock_swap(t) \/ unlock_load(t) \/ unlock_cas(t) \/ unlock_wake(t)
    \/ cw_assert(t) \/ cw_seq(t) \/ cw_ptr(t) \/ cw_bind(t) \/ cw_bound(t)
    \/ cw_futex(t) \/ cw_reacq(t) \/ cw_mwait(t)
    \/ no_inc(t) \/ no_wake(t)
    \/ SpuriousWake(t)

TwoSpec == TwoInit /\ [][TwoNext]_vars

(* C10: once the condition variable has been waited on with mutex a, a     *)
(* wait on it with the distinct mutex b does not get past the checks of    *)
(* CondVar::wait: it fails the assertion "CondVar used with multiple       *)
(* Mutexen" and never goes on to release b and sleep.                      *)
C10_SecondMutexDetected ==
  ph[2] = "wait" =>
    pc[2] \in {"cw_assert", "cw_seq", "cw_ptr", "cw_bind", "cw_bound", "panic"}

\* ------------------------------------------------------------ barrier client
\* A Barrier::new(NThreads) on which each of the NThreads threads calls
\* wait() Rounds times, entering the next round as soon as it is released.
\* hist.trues[r] / hist.falses[r] count the calls of round r that returned
\* true / false.
BarrierInit ==
  /\ InitLib(NThreads)
  /\ ph = [t \in Threads |-> "idle"]
  /\ left = [t \in Threads |-> Rounds]
  /\ data = 0
  /\ hist = [trues |-> [r \in 1..Rounds |-> 0], falses |-> [r \in 1..Rounds |-> 0]]

\* The round of the call thread t is in, or has last finished.
Round(t) == Rounds - left[t]

\* Barrier::wait (barrier.rs): self.0.wait()
BarrierWait(t) ==
  /\ Idle(t) /\ left[t] > 0
  /\ pc' = [pc EXCEPT ![t] = "bw_seq"]
  /\ ph' = [ph EXCEPT ![t] = "wait"]
  /\ left' = [left EXCEPT ![t] = left[t] - 1]
  /\ UNCHANGED <<sync, n, i, spins, marg, cont, seq, ptr, ret, data, tmp, guard, hist>>

\* wait has returned true or false to the caller.
BarrierReturned(t) ==
  /\ ph[t] = "wait" /\ pc[t] = "ret"
  /\ hist' = IF ret[t] = "true"
             THEN [hist EXCEPT !.trues[Round(t)] = @ + 1]
             ELSE [hist EXCEPT !.falses[Round(t)] = @ + 1]
  /\ ph' = [ph EXCEPT ![t] = "idle"]
  /\ Forget(t)
  /\ UNCHANGED <<sync, marg, cont, left, data, tmp, guard>>

\* The steps of thread t in the barrier client, spurious wakeups excepted.
BStep(t) ==
  \/ BarrierWait(t) \/ BarrierReturned(t)
  \/ bw_seq(t) \/ bw_add(t) \/ bw_load(t) \/ bw_futex(t)
  \/ bw_store(t) \/ bw_inc(t) \/ bw_wake(t)

BarrierNext == \E t \in Threads : BStep(t) \/ SpuriousWake(t)

\* Each thread that can run is scheduled again: weak fairness per thread.
BarrierSpec ==
  /\ BarrierInit /\ [][BarrierNext]_vars
  /\ \A t \in Threads : WF_vars(BStep(t))

\* The threads that have done the fetch_add on n_waiting of their call of
\* round r.
Arrived(r) ==
  {t \in Threads : \/ Round(t) > r
                   \/ Round(t) = r /\ pc[t] \notin {"bw_seq", "bw_add"}}

\* Every call of round r has returned.
RoundOver(r) == hist.trues[r] + hist.falses[r] = NThreads

(* C5: in a round in which exactly N threads call wait on a Barrier made   *)
(* for N, never more than one call returns true, and when all N calls have *)
(* returned exactly one returned true and N-1 returned false.              *)
C5_SingleWinner ==
  /\ hist.trues[1] <= 1
  /\ RoundOver(1) => hist.trues[1] = 1 /\ hist.falses[1] = NThreads - 1

\* All the calls of the first round have returned.
C5_Witness == RoundOver(1)

(* C6: a call of wait that has returned, true or false, returned after     *)
(* all N participants of its round did their increment of n_waiting, and a *)
(* call that returned false did so with seq different from the generation  *)
(* it had loaded, spurious returns of the kernel wait included.            *)
C6_Rendezvous ==
  \A t \in Threads :
    ph[t] = "wait" /\ pc[t] = "ret" =>
      /\ Arrived(Round(t)) = Threads
      /\ ret[t] = "false" => b_seq # seq[t]

\* A call of the last round has returned false.
C6_Witness ==
  \E t \in Threads : /\ ph[t] = "wait" /\ pc[t] = "ret" /\ ret[t] = "false"
                     /\ Round(t) = Rounds

BarrierAllDone == \A t \in Threads : Idle(t) /\ left[t] = 0

(* C7: over R consecutive rounds of the same Barrier by the same N         *)
(* threads, every round has at most one call that returns true and, once   *)
(* over, exactly one; and every call of every round eventually returns.    *)
C7_Reusable ==
  /\ [](\A r \in 1..Rounds :
          /\ hist.trues[r] <= 1
          /\ RoundOver(r) => hist.trues[r] = 1)
  /\ <>BarrierAllDone

\* A thread is already in the second round, past its increment, while
\* another one has not yet returned from the first.
C7_Witness ==
  \E t, u \in Threads : /\ Round(t) = 2 /\ pc[t] \in {"bw_load", "bw_futex"}
                        /\ Round(u) = 1 /\ ph[u] = "wait"

\* The rounds whose last arriver has incremented seq.
Released ==
  {r \in 1..Rounds :
     \/ hist.trues[r] = 1
     \/ \E t \in Threads : /\ ph[t] = "wait" /\ Round(t) = r
                           /\ \/ pc[t] = "bw_wake"
                              \/ pc[t] = "ret" /\ ret[t] = "true"}

(* C19: with exactly N participants per round, n_waiting never exceeds     *)
(* n_total and is below n_total unless the last arriver is between its     *)
(* fetch_add and its store(0); seq changes only by the fetch_add(1) of the *)
(* last arriver, made after its store(0) with n_waiting still 0, so that   *)
(* seq counts the rounds released; and a call of round r that has returned *)
(* had loaded generation r - 1 and returned with seq at r or more.         *)
C19_BarrierCounters ==
  /\ [](/\ n_waiting <= n_total
        /\ (\A t \in Threads : pc[t] # "bw_store") => n_waiting < n_total
        /\ b_seq = Cardinality(Released)
        /\ \A t \in Threads :
             ph[t] = "wait" /\ pc[t] = "ret" =>
               seq[t] = Round(t) - 1 /\ b_seq >= Round(t))
  /\ [][b_seq' # b_seq =>
          /\ b_seq' = b_seq + 1 /\ n_waiting = 0
          /\ \E t \in Threads : /\ pc[t] = "bw_inc" /\ pc'[t] = "bw_wake"
                                /\ n[t] = n_total]_vars

\* The last arriver of the second round is between its fetch_add and its
\* store(0): n_waiting is n_total and seq counts the first round only.
C19_Witness ==
  \E t \in Threads : /\ pc[t] = "bw_store" /\ Round(t) = 2
                     /\ n_waiting = n_total /\ b_seq = 1

\* ------------------------------------------------------------ one thread too many
\* A Barrier::new(NThreads - 1) on which each of the NThreads threads calls
\* wait() once: one call more than the barrier was made for.
OverInit ==
  /\ InitLib(NThreads - 1)
  /\ ph = [t \in Threads |-> "idle"]
  /\ left = [t \in Threads |-> 1]
  /\ data = 0
  /\ hist = [trues |-> [r \in 1..Rounds |-> 0], falses |-> [r \in 1..Rounds |-> 0]]

OverNext ==
  \E t \in Threads :
    \/ BarrierWait(t) \/ BarrierReturned(t)
    \/ bw_seq(t) \/ bw_add(t) \/ bw_load(t) \/ bw_futex(t)
    \/ bw_store(t) \/ bw_inc(t) \/ bw_wake(t)
    \/ SpuriousWake(t)

OverSpec == OverInit /\ [][OverNext]_vars

\* The call of thread t was let in as a participant: its fetch_add took
\* one of the branches n_waiting < n_total, n_waiting == n_total.
Admitted(t) ==
  \/ ph[t] = "wait" /\ pc[t] \in {"bw_load", "bw_futex", "bw_store", "bw_inc", "bw_wake", "ret"}
  \/ ph[t] = "idle" /\ left[t] = 0

(* C9: when more threads call wait than n_total, the excess call panics    *)
(* with "Too many waiters": never are more than n_total calls let in as    *)
(* participants (blocked or released as if they were legitimate).          *)
C9_ExcessCallPanics ==
  Cardinality({t \in Threads : Admitted(t)}) <= n_total

\* ------------------------------------------------------------ CondVar binding
\* The thread is inside a CondVar::wait that has gone past the
\* compare_and_swap on self.ptr (line 99), or has returned from one.
PastBind(t) ==
  /\ ph[t] = "wait"
  /\ pc[t] \in {"cw_bound", "unlock_swap", "unlock_load", "unlock_cas",
                "unlock_wake", "cw_futex", "cw_reacq", "cw_mwait", "ret"}

(* C11: CondVar.ptr is null until the first CondVar::wait, and once a wait *)
(* has done its compare_and_swap on ptr, ptr is the address of the mutex   *)
(* that was passed to wait.                                                *)
C11_BoundByFirstWait ==
  \A t \in Users : PastBind(t) => cv_ptr = marg[t]

(* C12: whenever CondVar.ptr is still null no thread sleeps on CondVar.seq *)
(* or is about to (it has released the mutex and its futex_wait on seq is  *)
(* next), so that the early return of notify_all leaves no waiter behind.  *)
C12_NullMeansNoWaiter ==
  cv_ptr = NULL =>
    \A t \in Threads : parked[t] # "cv" /\ pc[t] # "cw_futex"

\* Thread t takes the first step of notify_all, the load of self.ptr.
NotifyAllLoad(t) == pc[t] = "na_load" /\ pc'[t] # "na_load"

\* Thread t takes the last step of notify_all, the futex_reque.
NotifyAllReque(t) == pc[t] = "na_reque" /\ pc'[t] # "na_reque"

(* C13: a notify_all that starts when every waiter sleeps in               *)
(* CondVar::wait does not return early: it increments seq by one and its   *)
(* requeue makes at most one of the sleeping waiters runnable and moves    *)
(* the others onto the word of the bound mutex.                            *)
C13_NotifyAllRequeues ==
  [][/\ NotifyAllLoad(Notifier) => pc'[Notifier] = "na_inc"
     /\ pc[Notifier] = "na_inc" /\ pc'[Notifier] # "na_inc" =>
          cv_seq' = cv_seq + 1
     /\ NotifyAllReque(Notifier) =>
          /\ Cardinality({w \in Waiters : parked[w] = "cv" /\ parked'[w] = NONE}) <= 1
          /\ \A w \in Waiters : parked[w] = "cv" /\ parked'[w] # NONE =>
                                  parked'[w] = ptr[Notifier]]_vars

\* ------------------------------------------------------------ Mutex word
\* The thread of the raw-mutex client holds the lock: its lock has returned
\* and its unlock has not yet swapped 0 into the word.
RawHolds(t) == InCS(t) \/ pc[t] = "unlock_swap"

(* C14: the mutex word is 0, 1 or 2, and it is not 0 while a thread holds  *)
(* the lock, i.e. from the return of its lock to the swap of its unlock.   *)
C14_WordNonZeroWhileHeld ==
  /\ word["A"] \in {0, 1, 2}
  /\ (\E t \in Threads : RawHolds(t)) => word["A"] # 0

\* ------------------------------------------------------------ wakeup client
\* The raw-mutex client with the two spin budgets chosen apart: every lock
\* of the run is lock(hist.s), every unlock is unlock(hist.u), each any of
\* 0..MaxSpins.  The threads start WakeOps lock/unlock cycles between them (hist.ops are still to start, hist.users are the threads
\* that have started one), and the kernel makes at most MaxSpurious
\* spurious wakeups.
WakeInit ==
  /\ InitLib(0)
  /\ ph = [t \in Threads |-> "idle"]
  /\ left = [t \in Threads |-> 0]
  /\ data = 0
  /\ \E s \in 0..MaxSpins : \E u \in 0..MaxSpins :
       hist = [s |-> s, u |-> u, spurious |-> 0, ops |-> WakeOps, users |-> {}]

\* m.lock(s)
WakeLock(t) ==
  /\ Idle(t) /\ hist.ops > 0
  /\ CallLock(t, "A", hist.s)
  /\ ph' = [ph EXCEPT ![t] = "locking"]
  /\ hist' = [hist EXCEPT !.ops = @ - 1, !.users = @ \cup {t}]
  /\ UNCHANGED <<sync, seq, ptr, left, data, tmp, guard>>

\* lock has returned: m.unlock(u)
WakeUnlock(t) ==
  /\ ph[t] = "locking" /\ pc[t] = "ret"
  /\ CallUnlock(t, "A", hist.u, "ret")
  /\ ph' = [ph EXCEPT ![t] = "unlocking"]
  /\ UNCHANGED <<sync, n, seq, ptr, left, data, tmp, guard, hist>>

\* The steps of thread t that the scheduler owes it.
WStep(t) ==
  \/ WakeLock(t) \/ WakeUnlock(t) \/ RawDone(t)
  \/ lock_cas(t) \/ lock_swap(t) \/ lock_wait(t) \/ lock_reswap(t)
  \/ unlock_swap(t) \/ unlock_load(t) \/ unlock_cas(t) \/ unlock_wake(t)

WakeNext == \E t \in Threads : WStep(t) \/ QSpurious(t)

WakeSpec ==
  /\ WakeInit /\ [][WakeNext]_vars
  /\ \A t \in Threads : WF_vars(WStep(t))

\* A thread sleeps in futex_wait on the mutex word and the word is 0.
FreeWhileBlocked ==
  word["A"] = 0 /\ \E t \in Threads : parked[t] = "A"

\* Some unlock is past its swap and still in its spin loop or before its
\* futex_wake.
WakerPending ==
  \E u \in Threads : pc[u] \in {"unlock_load", "unlock_cas", "unlock_wake"}

\* A thread is awake inside the blocking path of lock: its next swap(2)
\* either acquires the lock with the word at 2 or finds the lock held.
Retrying ==
  \E t \in Threads : /\ parked[t] = NONE
                     /\ pc[t] \in {"lock_swap", "lock_wait", "lock_reswap"}

(* C15, as stated: with a spin budget of at least 1 on lock and any budget *)
(* on unlock, no thread sleeps on the mutex word while the word is 0       *)
(* unless an unlock is still in its spin loop or before its futex_wake;    *)
(* and, with every thread scheduled fairly and every holder unlocking, the *)
(* word does not stay 0 for ever while a thread sleeps on it.              *)
C15_NoMissedWakeup ==
  /\ [](hist.s >= 1 /\ FreeWhileBlocked => WakerPending)
  /\ (hist.s >= 1 /\ FreeWhileBlocked) ~> ~FreeWhileBlocked

(* C15, amended: as above, but the thread that is left to wake the sleeper *)
(* may also be a thread awake in the blocking path of lock (a waiter that  *)
(* futex_wake has just woken, say), whose swap(2) takes the lock with the  *)
(* word at 2 so that its own unlock calls futex_wake.                      *)
C15_NoMissedWakeupAmended ==
  /\ [](hist.s >= 1 /\ FreeWhileBlocked => WakerPending \/ Retrying)
  /\ (hist.s >= 1 /\ FreeWhileBlocked) ~> ~FreeWhileBlocked

\* The word is 0, a thread sleeps on it, no unlock is in progress, and the
\* waiter that the last futex_wake woke is about to swap 2 into the word.
C15_Witness ==
  /\ hist.s >= 1 /\ FreeWhileBlocked /\ ~WakerPending
  /\ \E t \in Threads : parked[t] = NONE /\ pc[t] = "lock_reswap"

\* ------------------------------------------------------------ contended path
\* Thread t takes the step in which its lock returns from the blocking
\* path: one of the two swap(2) found the word 0.
BlockingReturn(t) ==
  pc[t] \in {"lock_swap", "lock_reswap"} /\ pc'[t] = "ret"

\* Thread t takes the step in which its unlock returns.
UnlockReturn(t) ==
  pc[t] \in {"unlock_swap", "unlock_load", "unlock_cas", "unlock_wake"}
  /\ pc'[t] = "ret"

\* One thread that slept on the mutex word, if there was one, sleeps no more.
WokeOne ==
  IF \E w \in Threads : parked[w] = "A"
  THEN \E w \in Threads : /\ parked[w] = "A"
                          /\ parked' = [parked EXCEPT ![w] = NONE]
  ELSE parked' = parked

(* C16: a lock that acquires through the blocking path returns with the    *)
(* word at 2; and an unlock whose swap found a value other than 1 returns  *)
(* either from futex_wake, which wakes one sleeper of the word, or from a  *)
(* compare_and_swap(1, 2) of its spin loop after which another thread      *)
(* holds the lock and the word is 2.                                       *)
C16_ContendedForcesWake ==
  [][\A t \in Threads :
       /\ BlockingReturn(t) => word'["A"] = 2
       /\ UnlockReturn(t) =>
            \/ pc[t] = "unlock_swap" /\ word["A"] = 1
            \/ pc[t] = "unlock_wake" /\ WokeOne
            \/ /\ pc[t] = "unlock_cas" /\ word'["A"] = 2
               /\ \E u \in Threads \ {t} : RawHolds(u)]_vars

\* A thread holds the lock that it acquired on the blocking path (its spins
\* were used up), the word is 2, and an unlock that found the word at 2 is
\* in its spin loop, about to compare_and_swap.
C16_Witness ==
  \E t, u \in Threads :
    /\ t # u /\ InCS(t) /\ spins[t] >= 1 /\ i[t] = spins[t] /\ word["A"] = 2
    /\ ph[u] = "unlocking" /\ pc[u] = "unlock_cas"

\* ------------------------------------------------------------ fast path
\* Thread t takes one compare_and_swap(0, 1) of the for loop of lock.
LockCasStep(t) ==
  pc[t] = "lock_cas" /\ (pc'[t] # "lock_cas" \/ i'[t] # i[t])

\* Thread t takes the swap(0) of unlock.
UnlockSwapStep(t) == pc[t] = "unlock_swap" /\ pc'[t] # "unlock_swap"

\* No thread but t has ever called lock.
Alone(t) == hist.users \subseteq {t}

(* C17: a compare_and_swap of lock (spin budget at least 1) that finds the *)
(* word 0 sets it to 1 and lock returns without a futex_wait; a swap of    *)
(* unlock that finds the word 1 sets it to 0 and unlock returns without a  *)
(* futex_wake; and a thread that runs its lock/unlock cycles (lock budget  *)
(* at least 1) while no other thread uses the mutex is never at a          *)
(* futex_wait or a futex_wake and never sleeps.                            *)
C17_FastPathNoKernelCall ==
  /\ [][\A t \in Threads :
          /\ LockCasStep(t) /\ word["A"] = 0 =>
               word'["A"] = 1 /\ pc'[t] = "ret" /\ parked' = parked
          /\ UnlockSwapStep(t) /\ word["A"] = 1 =>
               word'["A"] = 0 /\ pc'[t] = "ret" /\ parked' = parked]_vars
  /\ [](\A t \in Threads :
          hist.s >= 1 /\ Alone(t) =>
            pc[t] \notin {"lock_wait", "unlock_wake"} /\ parked[t] = NONE)

\* One thread has run all the cycles of the run, the others none.
C17_Witness ==
  \E t \in Threads : /\ hist.s >= 1 /\ hist.users = {t} /\ hist.ops = 0
                     /\ Idle(t)

\* ------------------------------------------------------------ wait reacquires
\* Thread t takes the step in which its CondVar::wait returns.
WaitReturn(t) == ph[t] = "wait" /\ pc[t] # "ret" /\ pc'[t] = "ret"

(* C18: a thread that sleeps on CondVar.seq inside CondVar::wait does not  *)
(* hold the mutex (the word is 0 or another thread owns the lock);         *)
(* CondVar::wait returns only in a step in which its own swap(2) found the *)
(* word 0; and once it has returned the caller is the only owner of the    *)
(* lock and the word is 2, however many waiters try to reacquire at once.  *)
C18_WaitReleasesAndReacquires ==
  /\ [][\A t \in Users : WaitReturn(t) =>
          pc[t] = "cw_reacq" /\ word["A"] = 0 /\ word'["A"] = 2]_vars
  /\ [](\A t \in Users :
          /\ parked[t] = "cv" =>
               /\ ~Owner(t)
               /\ word["A"] = 0 \/ \E u \in Users \ {t} : Owner(u)
          /\ ph[t] = "wait" /\ pc[t] = "ret" =>
               word["A"] = 2 /\ \A u \in Users \ {t} : ~Owner(u))

\* Two waiters have been woken and have both swapped 2 into the word: the
\* wait of one has returned, the other found the word taken.
C18_Witness ==
  \E t, u \in Users : /\ t # u /\ ph[t] = "wait" /\ pc[t] = "ret"
                      /\ ph[u] = "wait" /\ pc[u] = "cw_mwait"

\* ------------------------------------------------------------ barriers of 0 and 1
\* A Barrier::new(0) or a Barrier::new(1) on which each of the threads Users
\* calls wait() up to Rounds times, at any moment.  A thread whose call panics is dead.
\* hist.trues / hist.panics count the calls that returned true / panicked;
\* hist.lone holds the thread whose call in progress has not overlapped the
\* call of any other thread.
SmallInit ==
  /\ \E nt \in {0, 1} : InitLib(nt)
  /\ ph = [t \in Threads |-> "idle"]
  /\ left = [t \in Threads |-> Rounds]
  /\ data = 0
  /\ hist = [trues |-> 0, panics |-> 0, lone |-> {}]

\* No call of wait is in progress.
NoCall == \A t \in Threads : ph[t] # "wait"

\* Barrier::wait (barrier.rs): self.0.wait()
SmallWait(t) ==
  /\ Idle(t) /\ left[t] > 0
  /\ pc' = [pc EXCEPT ![t] = "bw_seq"]
  /\ ph' = [ph EXCEPT ![t] = "wait"]
  /\ left' = [left EXCEPT ![t] = left[t] - 1]
  /\ hist' = [hist EXCEPT !.lone = IF NoCall THEN {t} ELSE {}]
  /\ UNCHANGED <<sync, n, i, spins, marg, cont, seq, ptr, ret, data, tmp, guard>>

\* wait has returned to the caller.
SmallReturned(t) ==
  /\ ph[t] = "wait" /\ pc[t] = "ret"
  /\ hist' = [hist EXCEPT !.trues = IF ret[t] = "true" THEN @ + 1 ELSE @,
                          !.lone = @ \ {t}]
  /\ ph' = [ph EXCEPT ![t] = "idle"]
  /\ Forget(t)
  /\ UNCHANGED <<sync, marg, cont, left, data, tmp, guard>>

\* panic!("Too many waiters") has unwound the caller.
SmallPanicked(t) ==
  /\ ph[t] = "wait" /\ pc[t] = "panic"
  /\ hist' = [hist EXCEPT !.panics = @ + 1, !.lone = @ \ {t}]
  /\ ph' = [ph EXCEPT ![t] = "dead"]
  /\ UNCHANGED <<sync, locals, left, data, tmp, guard>>

\* The branch n_waiting < n_total of wait, and with it the kernel wait, is
\* not among the steps: C20 states that no call gets there.
SmallNext ==
  \E t \in Users :
    \/ SmallWait(t) \/ SmallReturned(t) \/ SmallPanicked(t)
    \/ bw_seq(t) \/ bw_add(t) \/ bw_store(t) \/ bw_inc(t) \/ bw_wake(t)

SmallSpec == SmallInit /\ [][SmallNext]_vars

(* C20, as stated: on a Barrier made for 1 no call of wait blocks or       *)
(* panics, every call that returns returns true, and with no call in       *)
(* progress n_waiting is 0 and seq is the number of calls that returned;   *)
(* on a Barrier made for 0 every call panics and none returns.             *)
C20_DegenerateSizes ==
  /\ n_total = 1 =>
       /\ \A t \in Threads :
            /\ pc[t] \notin {"bw_load", "bw_futex", "panic"} /\ parked[t] = NONE
            /\ pc[t] = "ret" => ret[t] = "true"
       /\ NoCall => n_waiting = 0 /\ b_seq = hist.trues
  /\ n_total = 0 =>
       \A t \in Threads : pc[t] \in {"idle", "bw_seq", "bw_add", "panic"}

(* C20, amended: on a Barrier made for 1 no call of wait blocks, every     *)
(* call that returns returns true, a call that overlaps no other call does *)
(* not panic (a call that overlaps another one may), and with no call in   *)
(* progress n_waiting is 0 and seq is the number of calls that returned;   *)
(* on a Barrier made for 0 every call panics and none returns.             *)
C20_DegenerateSizesAmended ==
  /\ n_total = 1 =>
       /\ \A t \in Threads :
            /\ pc[t] \notin {"bw_load", "bw_futex"} /\ parked[t] = NONE
            /\ pc[t] = "ret" => ret[t] = "true"
            /\ t \in hist.lone => pc[t] # "panic"
       /\ NoCall => n_waiting = 0 /\ b_seq = hist.trues
  /\ n_total = 0 =>
       \A t \in Threads : pc[t] \in {"idle", "bw_seq", "bw_add", "panic"}

\* On a Barrier made for 1, after a call that overlapped another one has
\* panicked, a call that overlapped none has returned true.
C20_Witness ==
  /\ n_total = 1 /\ hist.panics >= 1
  /\ \E t \in hist.lone : pc[t] = "ret" /\ ret[t] = "true"

====
